---- MODULE Spec2Model ----
(***************************************************************************)
(* Model of judge/models/assignment.py (src/model/assignment.py): the      *)
(* assignment rating scheduler (Assignment.rate), the participation        *)
(* aggregator (recompute_results, set_disqualified) and the participation  *)
(* time window (AssignmentParticipation.start / end_time / ended /         *)
(* time_remaining), the scoreboard visibility test                         *)
(* (Assignment.can_see_full_scoreboard) and Assignment.clean.              *)
(*                                                                         *)
(* Instants and durations are integers.  The persisted tables are the      *)
(* variables end_time, is_rated, ratings, part, current_assignment and     *)
(* banned_users; op is a history variable that records what the last       *)
(* operation did (its arguments, the rows it deleted, the rating engine    *)
(* invocations it made, the state it started from).                        *)
(***************************************************************************)
EXTENDS Integers, Sequences, FiniteSets

VARIABLES end_time, is_rated, clock, ratings, part, current_assignment,
          banned_users, op, window, cached

\* The persisted tables and the clock.
db == <<end_time, is_rated, clock, ratings, part, current_assignment, banned_users>>

\* The participation object whose time window is being evaluated.
win == <<window, cached>>

vars == <<db, op, win>>

(* ------------------------------ bounds -------------------------------- *)

\* Latest instant at which an assignment of the model may end.
MaxEnd == 3
\* Latest instant the clock reaches.
MaxTime == 3
\* Highest score a scoring format computes for a participation.
MaxScore == 1
\* Longest time_limit configured on an assignment.
MaxLimit == 2

(* ------------------------------ universe ------------------------------ *)

Assignments == {"a1", "a2", "a3"}
Users == {"u1", "u2"}

\* AssignmentParticipation.LIVE / SPECTATE
LIVE == 0
SPECTATE == -1

\* The participation rows of the model, <<assignment, user, virtual>>:
\* u1 takes part live in every assignment and once virtually in a1,
\* u2 takes part live in a1 and a2.
Participations ==
    { <<"a1", "u1", LIVE>>, <<"a2", "u1", LIVE>>, <<"a3", "u1", LIVE>>,
      <<"a1", "u2", LIVE>>, <<"a2", "u2", LIVE>>, <<"a1", "u1", 1>> }

\* Profile.current_assignment = NULL
NoParticipation == <<"none", "none", 0>>

\* No Rating row for an (assignment, user) pair.
NoRow == -1

\* The score recompute_results forces on a disqualified participation.
Sentinel == -9999

(* --------------------------- rating engine ---------------------------- *)

\* Users with a Rating row in assignment a.
RatedUsers(rt, a) == {u \in Users : rt[<<a, u>>] # NoRow}

\* Assignments that have at least one Rating row (assignment.ratings.exists()).
HasRatings(rt, a) == RatedUsers(rt, a) # {}

\* Who the rating engine rates in assignment a: its live participants whose
\* persisted score is not the disqualification sentinel.
Eligible(pt, a) ==
    {u \in Users : /\ <<a, u, LIVE>> \in Participations
                   /\ pt[<<a, u, LIVE>>].score # Sentinel}

\* The assignments whose Rating row of u is u's rating history before a.
PriorAssignments(rt, a, u) ==
    {b \in Assignments : end_time[b] < end_time[a] /\ rt[<<b, u>>] # NoRow}

\* The rating u carries into assignment a: that of the latest earlier
\* assignment in which u has a Rating row, 0 without any.
PriorRating(rt, a, u) ==
    LET prior == PriorAssignments(rt, a, u)
        last == {b \in prior : \A c \in prior : end_time[c] <= end_time[b]}
    IN  IF prior = {} THEN 0 ELSE rt[<<CHOOSE b \in last : TRUE, u>>]

\* The engine's formula, abstracted: deterministic in the prior rating and
\* the score, and strictly above the prior rating.
NewRating(prior, score) == prior + score + 1

\* judge.ratings.rate_assignment(a): writes a Rating row for every eligible
\* live participant of a, chained off the user's prior rating.
rate_assignment(rt, pt, a) ==
    [x \in Assignments \X Users |->
        IF x[1] = a /\ x[2] \in Eligible(pt, a)
        THEN NewRating(PriorRating(rt, a, x[2]), pt[<<a, x[2], LIVE>>].score)
        ELSE rt[x]]

(* ------------------------- Assignment.rate ---------------------------- *)

\* Django's field__range=(lo, hi): SQL BETWEEN lo AND hi, both ends included.
RangeLookup(e, lo, hi) == lo <= e /\ e <= hi

\* Mutant of DeleteSet: the delete restricted to is_rated assignments.
DeleteSetRatedOnly(A, now) ==
    {a \in Assignments : is_rated[a] /\ RangeLookup(end_time[a], end_time[A], now)}

\* Rating.objects.filter(assignment__end_time__range=(self.end_time, self._now))
DeleteSet(A, now) ==
    {a \in Assignments : RangeLookup(end_time[a], end_time[A], now)}

\* Mutant of RateSet: the is_rated=True filter dropped.
RateSetAnyFlag(A, now) ==
    {a \in Assignments : RangeLookup(end_time[a], end_time[A], now)}

\* Assignment.objects.filter(is_rated=True, end_time__range=(self.end_time, self._now))
RateSet(A, now) ==
    {a \in Assignments : is_rated[a] /\ RangeLookup(end_time[a], end_time[A], now)}

\* Mutant of OrderKey: order_by('-end_time').
OrderKeyDescending(e1, e2) == e1 >= e2

\* The comparison order_by('end_time') sorts with.
OrderKey(e1, e2) == e1 <= e2

\* .order_by('end_time'): every listing of S without repetition in which the
\* end times never decrease; the database orders equal end times as it likes.
OrderBy(S) ==
    {s \in [1..Cardinality(S) -> S] :
        /\ \A i, j \in 1..Cardinality(S) : i # j => s[i] # s[j]
        /\ \A i, j \in 1..Cardinality(S) :
              i < j => OrderKey(end_time[s[i]], end_time[s[j]])}

\* .delete() on the filtered Rating queryset.
DeleteRatings(rt, S) ==
    [x \in Assignments \X Users |-> IF x[1] \in S THEN NoRow ELSE rt[x]]

\* The Rating table inside the transaction after the first k engine passes.
RECURSIVE Replay(_, _, _, _)
Replay(rt, pt, order, k) ==
    IF k = 0 THEN rt
    ELSE LET seen == Replay(rt, pt, order, k - 1)
         IN  rate_assignment(seen, pt, order[k])

\* What pass k of the replay read and wrote.
PassRecord(rt, pt, order, k) ==
    LET a == order[k]
        seen == Replay(rt, pt, order, k - 1)
        done == Replay(rt, pt, order, k)
    IN  [assignment |-> a,
         score |-> [u \in Users |-> IF u \in Eligible(pt, a)
                                    THEN pt[<<a, u, LIVE>>].score ELSE NoRow],
         prior |-> [u \in Users |-> IF u \in Eligible(pt, a)
                                    THEN PriorRating(seen, a, u) ELSE NoRow],
         rating |-> [u \in Users |-> IF u \in Eligible(pt, a)
                                     THEN done[<<a, u>>] ELSE NoRow]]

\* Mutant of Atomic: no transaction, every write is committed as it is made.
Autocommit(before, after, failed) == after

\* with transaction.atomic(): the block's writes are committed when it ends
\* normally and rolled back when an exception leaves it.
Atomic(before, after, failed) == IF failed THEN before ELSE after

\* Assignment.rate(self) at self._now = now.  order is the listing the query
\* returns; fail = 0 when every rate_assignment call returns, fail = k when
\* the k-th call raises.
rate(rt, pt, A, now, order, fail) ==
    LET deleted == DeleteRatings(rt, DeleteSet(A, now))
        n == IF fail = 0 THEN Len(order) ELSE fail - 1
        invoked == IF fail = 0 THEN Len(order) ELSE fail
    IN  [ok |-> fail = 0,
         ratings |-> Atomic(rt, Replay(deleted, pt, order, n), fail # 0),
         deleted |-> {a \in Assignments : HasRatings(rt, a) /\ ~HasRatings(deleted, a)},
         calls |-> [i \in 1..invoked |-> order[i]],
         passes |-> [i \in 1..n |-> PassRecord(deleted, pt, order, i)]]

(* ----------------------- participation aggregator --------------------- *)

\* assignment.format.update_participation(self): computes the score s from
\* the participation's submissions and saves the participation object, whose
\* in-memory is_disqualified is flag.
update_participation(pt, p, flag, s) ==
    [pt EXCEPT ![p] = [is_disqualified |-> flag, score |-> s]]

\* Mutant of recompute_results: the disqualification override is left out.
recompute_results_no_override(pt, p, flag, s) ==
    update_participation(pt, p, flag, s)

\* The body of AssignmentParticipation.recompute_results(self), where
\* self.is_disqualified = flag and the format computes the score s.
recompute_results(pt, p, flag, s) ==
    LET updated == update_participation(pt, p, flag, s)
    IN  IF flag THEN [updated EXCEPT ![p].score = Sentinel] ELSE updated

\* Mutant of NeedsRating: the ratings.exists() test is left out.
NeedsRatingFlagOnly(rt, a) == is_rated[a]

\* self.assignment.is_rated and self.assignment.ratings.exists()
NeedsRating(rt, a) == is_rated[a] /\ HasRatings(rt, a)

\* Mutant of Detaches: the pointer is cleared whatever it points at.
DetachesAlways(cur, p) == TRUE

\* self.user.current_assignment == self
Detaches(cur, p) == cur[p[2]] = p

\* self.user.remove_assignment(): clears the user's current_assignment.
remove_assignment(cur, u) == [cur EXCEPT ![u] = NoParticipation]

\* self.assignment.banned_users.add(self.user) / .remove(self.user)
update_banned(ban, a, u, flag) ==
    [ban EXCEPT ![a] = IF flag THEN @ \cup {u} ELSE @ \ {u}]

\* The steps set_disqualified can fail in.
FailPoints == {"none", "recompute_results", "rate", "remove_assignment", "banned_users"}

\* Mutant of set_disqualified_rating: the re-rating reads the participation
\* table as it was before recompute_results.
set_disqualified_rating_stale(rt, pt, pt1, a, now, order, k) ==
    rate(rt, pt, a, now, order, k)

\* self.assignment.rate() as set_disqualified calls it: after recompute_results
\* has committed the participation table pt1 (pt is the table before it).
set_disqualified_rating(rt, pt, pt1, a, now, order, k) ==
    rate(rt, pt1, a, now, order, k)

\* AssignmentParticipation.set_disqualified(self, d) on participation p at
\* instant now; s is the score the format computes, order the listing the
\* rate() query returns, fail the step that raises ("none": no step does)
\* and k the engine call that raises when fail = "rate".
set_disqualified(rt, pt, cur, ban, p, d, s, now, order, fail, k) ==
    LET a == p[1]
        u == p[2]
        pt1 == Atomic(pt, recompute_results(pt, p, d, s), fail = "recompute_results")
        past_recompute == fail # "recompute_results"
        rerate == past_recompute /\ NeedsRating(rt, a)
        r == set_disqualified_rating(rt, pt, pt1, a, now, order, k)
        rt1 == IF rerate THEN r.ratings ELSE rt
        past_rate == past_recompute /\ (rerate => r.ok)
        detach == past_rate /\ d /\ Detaches(cur, p)
        cur1 == IF detach /\ fail # "remove_assignment"
                THEN remove_assignment(cur, u) ELSE cur
        past_detach == past_rate /\ ~(detach /\ fail = "remove_assignment")
        ban1 == IF past_detach /\ fail # "banned_users"
                THEN update_banned(ban, a, u, d) ELSE ban
    IN  [ok |-> fail = "none",
         ratings |-> rt1, part |-> pt1, current |-> cur1, banned |-> ban1,
         steps |-> <<"recompute_results">>
                   \o (IF rerate THEN <<"rate">> ELSE <<>>)
                   \o (IF detach THEN <<"remove_assignment">> ELSE <<>>)
                   \o (IF past_detach THEN <<"banned_users">> ELSE <<>>),
         deleted |-> IF rerate THEN r.deleted ELSE {},
         calls |-> IF rerate THEN r.calls ELSE <<>>,
         passes |-> IF rerate THEN r.passes ELSE <<>>]

(* ----------------------------- time window ---------------------------- *)

\* assignment.time_limit is None
NoLimit == -1

\* A cached_property that has not been computed yet.
NotComputed == -1

\* The values AssignmentParticipation.virtual takes in the model.
VirtualIds == {SPECTATE, LIVE, 1, 2}

Min(x, y) == IF x <= y THEN x ELSE y

\* Python truth value of a participation's virtual id: 0 is false.
Truthy(n) == n # 0

\* Python truth value of assignment.time_limit: None and timedelta(0) are false.
TruthyLimit(tl) == tl # NoLimit /\ tl # 0

\* Mutant of end_time_of: the live branch tests the truth value of time_limit
\* instead of comparing it with None.
end_time_of_truthy_live(w) ==
    IF w.virtual = SPECTATE THEN w.end_time
    ELSE IF Truthy(w.virtual)
         THEN IF TruthyLimit(w.time_limit)
              THEN w.real_start + w.time_limit
              ELSE w.real_start + (w.end_time - w.start_time)
         ELSE IF ~TruthyLimit(w.time_limit)
              THEN w.end_time
              ELSE Min(w.real_start + w.time_limit, w.end_time)

\* AssignmentParticipation.end_time
end_time_of(w) ==
    IF w.virtual = SPECTATE THEN w.end_time
    ELSE IF Truthy(w.virtual)
         THEN IF TruthyLimit(w.time_limit)
              THEN w.real_start + w.time_limit
              ELSE w.real_start + (w.end_time - w.start_time)
         ELSE IF w.time_limit = NoLimit
              THEN w.end_time
              ELSE Min(w.real_start + w.time_limit, w.end_time)

\* Mutant of start_of: a spectator without time_limit starts at its real_start.
start_of_live_only(w) ==
    IF w.time_limit = NoLimit /\ w.virtual = LIVE
    THEN w.start_time ELSE w.real_start
\* AssignmentParticipation.start
start_of(w) ==
    IF w.time_limit = NoLimit /\ (w.virtual = LIVE \/ w.virtual = SPECTATE)
    THEN w.start_time ELSE w.real_start

\* The participation objects of the model with their assignment's window:
\* start_time < end_time, time_limit None or a duration of 0..MaxLimit.
Windows ==
    {w \in [start_time : 0..MaxTime, end_time : 0..MaxTime,
            time_limit : {NoLimit} \cup 0..MaxLimit,
            real_start : 0..MaxTime, virtual : VirtualIds] :
        w.start_time < w.end_time}

\* No participation object is loaded.
NoWindow ==
    [start_time |-> 0, end_time |-> 1, time_limit |-> NoLimit,
     real_start |-> 0, virtual |-> LIVE]

\* Python's None, as returned by time_remaining.
None == -1

\* A property that has not been evaluated on the object; an evaluated one
\* holds <<value>>.
NotEvaluated == <<>>

\* Mutant of participation_now: timezone.now() is read again on every access.
participation_now_resampled(cachedNow, clk) == clk

\* AssignmentParticipation._now (cached_property): timezone.now() on the first
\* access, the same instant on every later access to the object.
participation_now(cachedNow, clk) ==
    IF cachedNow = NotComputed THEN clk ELSE cachedNow

\* AssignmentParticipation.ended
ended_of(end, now) == end # None /\ end < now

\* AssignmentParticipation.time_remaining
time_remaining_of(end, now) ==
    IF end # None /\ end >= now THEN end - now ELSE None
\* Assignment.SCOREBOARD_VISIBLE / _AFTER_CONTEST / _AFTER_PARTICIPATION
SCOREBOARD_VISIBLE == "V"
SCOREBOARD_AFTER_CONTEST == "C"
SCOREBOARD_AFTER_PARTICIPATION == "P"

\* Assignment._now (cached_property): timezone.now() on the first access to
\* the assignment object, the same instant on every later access to it.
assignment_now(cachedNow, clk) ==
    IF cachedNow = NotComputed THEN clk ELSE cachedNow

\* Assignment.can_join
can_join_of(w, now) == w.start_time <= now

\* Assignment.ended
assignment_ended_of(w, now) == w.end_time < now

\* Assignment.show_scoreboard
show_scoreboard_of(w, now) ==
    IF ~can_join_of(w, now) THEN FALSE
    ELSE IF /\ w.scoreboard_visibility
                  \in {SCOREBOARD_AFTER_CONTEST, SCOREBOARD_AFTER_PARTICIPATION}
            /\ ~assignment_ended_of(w, now)
         THEN FALSE
         ELSE TRUE

\* Whether show_scoreboard reads self.ended: not when can_join is false or the
\* scoreboard is always visible.
show_scoreboard_reads_ended(w, now) ==
    /\ can_join_of(w, now)
    /\ w.scoreboard_visibility
          \in {SCOREBOARD_AFTER_CONTEST, SCOREBOARD_AFTER_PARTICIPATION}

\* An assignment without time_limit together with the live participation of
\* the user who asks for its scoreboard.
ScoreboardWindows ==
    {[start_time |-> w.start_time, end_time |-> w.end_time,
      time_limit |-> w.time_limit, real_start |-> w.real_start,
      virtual |-> w.virtual, scoreboard_visibility |-> v] :
        w \in {x \in Windows : x.virtual = LIVE /\ x.time_limit = NoLimit},
        v \in {SCOREBOARD_VISIBLE, SCOREBOARD_AFTER_CONTEST,
               SCOREBOARD_AFTER_PARTICIPATION}}
NothingCached ==
    [start |-> NotComputed, end_time |-> NotComputed, now |-> NotComputed,
     ended |-> NotEvaluated, time_remaining |-> NotEvaluated,
     assignment_now |-> NotComputed, assignment_ended |-> NotEvaluated,
     show_scoreboard |-> NotEvaluated, can_see_full_scoreboard |-> NotEvaluated]

(* --------------------------- Assignment.clean -------------------------- *)

\* What get_label_for_problem(0) does with the assignment's label script.
LabelOutcomes == {"string", "not_string", "raises"}

\* Python truth value of a DateTimeField value: None is false, every datetime
\* is true.
TruthyTime(t) == t # None

\* Mutant of clean: the window test uses > and lets start_time = end_time pass.
clean_strict_window(start, end, format_ok, label) ==
    IF TruthyTime(start) /\ TruthyTime(end) /\ start > end
    THEN [error |-> "window", examined |-> <<>>]
    ELSE IF ~format_ok
    THEN [error |-> "format_config", examined |-> <<"format_config">>]
    ELSE IF label # "string"
    THEN [error |-> "label_script", examined |-> <<"format_config", "label_script">>]
    ELSE [error |-> "none", examined |-> <<"format_config", "label_script">>]

\* Assignment.clean(self): the ValidationError it raises ("none": it returns)
\* and what it has examined by then.  format_ok: format_class.validate accepts
\* format_config; label: the outcome of the label script.
clean(start, end, format_ok, label) ==
    IF TruthyTime(start) /\ TruthyTime(end) /\ start >= end
    THEN [error |-> "window", examined |-> <<>>]
    ELSE IF ~format_ok
    THEN [error |-> "format_config", examined |-> <<"format_config">>]
    ELSE IF label # "string"
    THEN [error |-> "label_script", examined |-> <<"format_config", "label_script">>]
    ELSE [error |-> "none", examined |-> <<"format_config", "label_script">>]

\* Field validation of the two required DateTimeFields.
fields_valid(start, end) == start # None /\ end # None
(* --------------------------- history record --------------------------- *)

NoOp ==
    [name |-> "none", assignment |-> "none", participation |-> NoParticipation,
     disqualified |-> FALSE, computed |-> 0, now |-> 0, ok |-> TRUE,
     failed |-> "none", steps |-> <<>>,
     before |-> [x \in Assignments \X Users |-> NoRow],
     before_part |-> [p \in Participations |-> [is_disqualified |-> FALSE, score |-> 0]],
     before_current |-> [u \in Users |-> NoParticipation],
     before_banned |-> [a \in Assignments |-> {}],
     deleted |-> {}, calls |-> <<>>, passes |-> <<>>,
     start_time |-> None, end_time |-> None]

(* ------------------------------ actions ------------------------------- *)

Init ==
    /\ end_time \in [Assignments -> 1..MaxEnd]
    /\ is_rated = [a \in Assignments |-> TRUE]
    /\ clock = 0
    /\ ratings = [x \in Assignments \X Users |-> NoRow]
    /\ part = [p \in Participations |-> [is_disqualified |-> FALSE, score |-> 0]]
    /\ current_assignment = [u \in Users |-> NoParticipation]
    /\ banned_users = [a \in Assignments |-> {}]
    /\ op = NoOp
    /\ window = NoWindow
    /\ cached = NothingCached

\* No operation is under observation: the last one has returned to its caller.
Idle == op.name = "none"

\* The caller takes the outcome of the last operation; the record is dropped.
Return ==
    /\ ~Idle
    /\ op' = NoOp
    /\ UNCHANGED <<db, win>>

\* Time passes.
Tick ==
    /\ Idle
    /\ clock < MaxTime
    /\ clock' = clock + 1
    /\ op' = NoOp
    /\ UNCHANGED <<end_time, is_rated, ratings, part, current_assignment, banned_users, win>>

\* An administrator edits Assignment.is_rated.
SetRated(a) ==
    /\ Idle
    /\ is_rated' = [is_rated EXCEPT ![a] = ~is_rated[a]]
    /\ op' = NoOp
    /\ UNCHANGED <<end_time, clock, ratings, part, current_assignment, banned_users, win>>

\* A.rate() on a freshly loaded assignment object.
Rate(A) ==
    /\ Idle
    /\ \E order \in OrderBy(RateSet(A, clock)) :
       \E fail \in 0..Len(order) :
        LET r == rate(ratings, part, A, clock, order, fail)
        IN  /\ ratings' = r.ratings
            /\ op' = [NoOp EXCEPT !.name = "rate", !.assignment = A, !.now = clock,
                                  !.ok = r.ok, !.before = ratings,
                                  !.deleted = r.deleted, !.calls = r.calls,
                                  !.passes = r.passes]
            /\ UNCHANGED <<end_time, is_rated, clock, part, current_assignment, banned_users, win>>

\* Profile.current_assignment is set when the user enters a participation.
Join(p) ==
    /\ Idle
    /\ current_assignment[p[2]] # p
    /\ current_assignment' = [current_assignment EXCEPT ![p[2]] = p]
    /\ op' = NoOp
    /\ UNCHANGED <<end_time, is_rated, clock, ratings, part, banned_users, win>>

\* p.recompute_results() on a freshly loaded participation, e.g. after one
\* of its submissions was judged; failed: an exception leaves the atomic block.
RecomputeResults(p) ==
    /\ Idle
    /\ \E s \in 0..MaxScore, failed \in BOOLEAN :
          /\ part' = Atomic(part,
                            recompute_results(part, p, part[p].is_disqualified, s),
                            failed)
          /\ op' = [NoOp EXCEPT !.name = "recompute_results", !.participation = p,
                                !.assignment = p[1], !.computed = s,
                                !.disqualified = part[p].is_disqualified,
                                !.ok = ~failed, !.before_part = part,
                                !.failed = IF failed THEN "recompute_results"
                                                     ELSE "none",
                                !.steps = <<"recompute_results">>]
    /\ UNCHANGED <<end_time, is_rated, clock, ratings, current_assignment, banned_users, win>>

\* p.set_disqualified(d) on a freshly loaded participation.
SetDisqualified(p, d) ==
    /\ Idle
    /\ \E s \in 0..MaxScore, fail \in FailPoints :
       \E order \in OrderBy(RateSet(p[1], clock)) :
       \E k \in 0..Len(order) :
          LET r == set_disqualified(ratings, part, current_assignment, banned_users,
                                    p, d, s, clock, order, fail, k)
          IN  /\ (fail = "rate") = (k # 0)
              /\ fail = "rate" => NeedsRating(ratings, p[1])
              /\ fail = "remove_assignment" => (d /\ Detaches(current_assignment, p))
              /\ ratings' = r.ratings
              /\ part' = r.part
              /\ current_assignment' = r.current
              /\ banned_users' = r.banned
              /\ op' = [NoOp EXCEPT !.name = "set_disqualified", !.participation = p,
                                    !.assignment = p[1], !.disqualified = d,
                                    !.computed = s, !.now = clock, !.ok = r.ok,
                                    !.failed = fail,
                                    !.steps = r.steps, !.before = ratings,
                                    !.before_part = part,
                                    !.before_current = current_assignment,
                                    !.before_banned = banned_users,
                                    !.deleted = r.deleted, !.calls = r.calls,
                                    !.passes = r.passes]
    /\ UNCHANGED <<end_time, is_rated, clock, win>>

\* A participation object is loaded together with its assignment.
LoadParticipation ==
    /\ window' \in Windows
    /\ cached' = NothingCached
    /\ UNCHANGED <<db, op>>

\* participation.end_time (cached_property): computed on first access.
GetEndTime ==
    /\ cached.end_time = NotComputed
    /\ cached' = [cached EXCEPT !.end_time = end_time_of(window)]
    /\ UNCHANGED <<db, op, window>>

\* participation.start (cached_property): computed on first access.
GetStart ==
    /\ cached.start = NotComputed
    /\ cached' = [cached EXCEPT !.start = start_of(window)]
    /\ UNCHANGED <<db, op, window>>

\* participation.end_time as a property of the object reads it: the cached
\* value, computed now if this is the first access.
EndTimeRead ==
    IF cached.end_time = NotComputed THEN end_time_of(window) ELSE cached.end_time

\* participation.ended (property): evaluated on every access from the cached
\* end_time and the cached _now.
GetEnded ==
    /\ Idle
    /\ LET end == EndTimeRead
           now == participation_now(cached.now, clock)
       IN  cached' = [cached EXCEPT !.end_time = end, !.now = now,
                                    !.ended = <<ended_of(end, now)>>]
    /\ UNCHANGED <<db, op, window>>

\* participation.time_remaining (property).
GetTimeRemaining ==
    /\ Idle
    /\ LET end == EndTimeRead
           now == participation_now(cached.now, clock)
       IN  cached' = [cached EXCEPT !.end_time = end, !.now = now,
                                    !.time_remaining = <<time_remaining_of(end, now)>>]
    /\ UNCHANGED <<db, op, window>>
\* assignment.can_see_full_scoreboard(user) for a logged-in user without
\* permissions on the assignment, up to the test of has_completed_assignment:
\* show_scoreboard is evaluated on the assignment object, which samples the
\* assignment's _now; the answer is known unless the scoreboard is hidden for
\* the duration of the participation.
CanSeeFullScoreboard ==
    /\ Idle
    /\ cached.show_scoreboard = NotEvaluated
    /\ LET now == assignment_now(cached.assignment_now, clock)
           show == show_scoreboard_of(window, now)
           answer == IF show THEN <<TRUE>>
                     ELSE IF window.scoreboard_visibility = SCOREBOARD_AFTER_PARTICIPATION
                          THEN NotEvaluated
                          ELSE <<FALSE>>
       IN  cached' = [cached EXCEPT
                        !.assignment_now = now,
                        !.assignment_ended =
                            IF show_scoreboard_reads_ended(window, now)
                            THEN <<assignment_ended_of(window, now)>> ELSE @,
                        !.show_scoreboard = <<show>>,
                        !.can_see_full_scoreboard = answer]
    /\ UNCHANGED <<db, op, window>>

\* The rest of can_see_full_scoreboard: assignment.has_completed_assignment(user)
\* loads the user's live participation and reads its ended, which samples the
\* participation's own _now.
HasCompletedAssignment ==
    /\ Idle
    /\ cached.show_scoreboard = <<FALSE>>
    /\ window.scoreboard_visibility = SCOREBOARD_AFTER_PARTICIPATION
    /\ cached.can_see_full_scoreboard = NotEvaluated
    /\ LET end == EndTimeRead
           now == participation_now(cached.now, clock)
       IN  cached' = [cached EXCEPT
                        !.end_time = end, !.now = now,
                        !.ended = <<ended_of(end, now)>>,
                        !.can_see_full_scoreboard = <<ended_of(end, now)>>]
    /\ UNCHANGED <<db, op, window>>
\* An administrator submits the assignment form with the given start_time and
\* end_time: the form validates the fields and runs clean(); the row is saved
\* only if neither reports an error.
SaveAssignment(start, end, format_ok, label) ==
    /\ Idle
    /\ LET c == clean(start, end, format_ok, label)
           saved == c.error = "none" /\ fields_valid(start, end)
       IN  /\ window' = IF saved
                        THEN [window EXCEPT !.start_time = start, !.end_time = end]
                        ELSE window
           /\ op' = [NoOp EXCEPT !.name = "save", !.start_time = start,
                                 !.end_time = end, !.ok = saved,
                                 !.failed = c.error, !.steps = c.examined]
    /\ UNCHANGED <<db, cached>>
\* A p.set_disqualified(d) in which no step raises.
SetDisqualifiedCompletes(p, d) ==
    /\ SetDisqualified(p, d)
    /\ op'.ok
Next ==
    \/ Return
    \/ Tick
    \/ \E a \in Assignments : SetRated(a)
    \/ \E a \in Assignments : Rate(a)

Spec == Init /\ [][Next]_vars

(* --------- disqualification on an assignment whose time is over -------- *)

\* The participations that get disqualified and recomputed: those of u1 in
\* a1, one live and one virtual.  u2 stays a rated live participant of a1.
DqTargets == {p \in Participations : p[1] = "a1" /\ p[2] = "u1"}

\* The participations u1 enters: the two of a1 and the live one of a2.
JoinTargets == {p \in Participations : p[2] = "u1" /\ p[1] # "a3"}

\* Every assignment has ended; a1 is rated or not and has Rating rows (from a
\* rate() made when all three were rated) or none; a3 is no longer rated.
DqInit ==
    /\ end_time = [a \in Assignments |->
                     IF a = "a1" THEN 1 ELSE IF a = "a2" THEN 2 ELSE MaxEnd]
    /\ clock = MaxTime
    /\ is_rated \in {f \in [Assignments -> BOOLEAN] : f["a2"] /\ ~f["a3"]}
    /\ part = [p \in Participations |-> [is_disqualified |-> FALSE, score |-> 0]]
    /\ ratings \in {[x \in Assignments \X Users |-> NoRow],
                     Replay([x \in Assignments \X Users |-> NoRow], part,
                            <<"a1", "a2", "a3">>, 3)}
    /\ current_assignment = [u \in Users |-> NoParticipation]
    /\ banned_users = [a \in Assignments |-> {}]
    /\ op = NoOp
    /\ window = NoWindow
    /\ cached = NothingCached

DqNext ==
    \/ Return
    \/ \E p \in JoinTargets : Join(p)
    \/ \E p \in DqTargets : RecomputeResults(p)
    \/ \E p \in DqTargets, d \in BOOLEAN : SetDisqualified(p, d)

DqSpec == DqInit /\ [][DqNext]_vars

(* ------------------- evaluation of the time window --------------------- *)

TimeInit ==
    /\ end_time = [a \in Assignments |-> 1]
    /\ is_rated = [a \in Assignments |-> TRUE]
    /\ clock = 0
    /\ ratings = [x \in Assignments \X Users |-> NoRow]
    /\ part = [p \in Participations |-> [is_disqualified |-> FALSE, score |-> 0]]
    /\ current_assignment = [u \in Users |-> NoParticipation]
    /\ banned_users = [a \in Assignments |-> {}]
    /\ op = NoOp
    /\ window \in Windows
    /\ cached = NothingCached

TimeNext ==
    \/ LoadParticipation
    \/ GetEndTime
    \/ GetStart

TimeSpec == TimeInit /\ [][TimeNext]_vars

(* ------------- ended / time_remaining of one participation ------------ *)

\* A participation object is loaded; time passes while its properties are read.
EndedInit == TimeInit

EndedNext ==
    \/ Tick
    \/ GetEnded
    \/ GetTimeRemaining

EndedSpec == EndedInit /\ [][EndedNext]_vars
(* ---------------------- who may see the scoreboard --------------------- *)

\* A request loads an assignment without time_limit; the user has a live
\* participation in it.
ScoreboardInit ==
    /\ end_time = [a \in Assignments |-> 1]
    /\ is_rated = [a \in Assignments |-> TRUE]
    /\ clock \in 0..MaxTime
    /\ ratings = [x \in Assignments \X Users |-> NoRow]
    /\ part = [p \in Participations |-> [is_disqualified |-> FALSE, score |-> 0]]
    /\ current_assignment = [u \in Users |-> NoParticipation]
    /\ banned_users = [a \in Assignments |-> {}]
    /\ op = NoOp
    /\ window \in ScoreboardWindows
    /\ cached = NothingCached

ScoreboardNext ==
    \/ Tick
    \/ CanSeeFullScoreboard
    \/ HasCompletedAssignment

ScoreboardSpec == ScoreboardInit /\ [][ScoreboardNext]_vars
(* ------------------------- saving an assignment ------------------------ *)

\* A persisted assignment; its window is edited through the form.
CleanInit ==
    /\ end_time = [a \in Assignments |-> 1]
    /\ is_rated = [a \in Assignments |-> TRUE]
    /\ clock = 0
    /\ ratings = [x \in Assignments \X Users |-> NoRow]
    /\ part = [p \in Participations |-> [is_disqualified |-> FALSE, score |-> 0]]
    /\ current_assignment = [u \in Users |-> NoParticipation]
    /\ banned_users = [a \in Assignments |-> {}]
    /\ op = NoOp
    /\ window = NoWindow
    /\ cached = NothingCached

CleanNext ==
    \/ Return
    \/ \E start, end \in {None} \cup 0..MaxTime :
       \E format_ok \in BOOLEAN, label \in LabelOutcomes :
          SaveAssignment(start, end, format_ok, label)

CleanSpec == CleanInit /\ [][CleanNext]_vars
(* ------------- sequences of completed set_disqualified calls ----------- *)

\* The participations of a1: u1's live and virtual one and u2's live one.
BanTargets == {p \in Participations : p[1] = "a1"}

\* No participation is disqualified and no user is banned.
BanInit == DqInit

BanNext ==
    \/ Return
    \/ \E p \in BanTargets, d \in BOOLEAN : SetDisqualifiedCompletes(p, d)

BanSpec == BanInit /\ [][BanNext]_vars
(* ------------------- claims about Assignment.rate --------------------- *)
\* C1 to C4 and C14 are checked under Spec, C5 to C8 under DqSpec, C9, C10 and
\* C15 under TimeSpec, C11 under EndedSpec, C12 under ScoreboardSpec, C13
\* under CleanSpec and C16 under BanSpec.

\* The operation under observation is a call A.rate().
IsRate == op.name = "rate"

\* Position of assignment a among the completed engine passes, 0 if none.
PassIndex(a) ==
    IF \E i \in DOMAIN op.passes : op.passes[i].assignment = a
    THEN CHOOSE i \in DOMAIN op.passes : op.passes[i].assignment = a
    ELSE 0

\* C1: rate(A) invokes the rating engine exactly once for every is_rated
\* assignment whose end_time lies between A.end_time and the call's now
\* (both included) and for no other assignment, and never invokes it on an
\* assignment before one of the same call that ended earlier.
C1_RateInvokesRatedInRangeAscending ==
    IsRate =>
        /\ \A i, j \in DOMAIN op.calls : i # j => op.calls[i] # op.calls[j]
        /\ \A i \in DOMAIN op.calls :
              /\ is_rated[op.calls[i]]
              /\ end_time[op.assignment] <= end_time[op.calls[i]]
              /\ end_time[op.calls[i]] <= op.now
        /\ \A i, j \in DOMAIN op.calls :
              i < j => ~(end_time[op.calls[j]] < end_time[op.calls[i]])
        /\ op.ok =>
              \A a \in Assignments :
                  (/\ is_rated[a]
                   /\ end_time[op.assignment] <= end_time[a]
                   /\ end_time[a] <= op.now)
                  => \E i \in DOMAIN op.calls : op.calls[i] = a

\* A completed rate() that rated two assignments with different end times
\* and left out an assignment of the range that is not is_rated.
C1_Witness ==
    /\ IsRate /\ op.ok
    /\ \E i, j \in DOMAIN op.calls : end_time[op.calls[i]] < end_time[op.calls[j]]
    /\ \E a \in Assignments :
          /\ ~is_rated[a]
          /\ end_time[op.assignment] <= end_time[a] /\ end_time[a] <= op.now

Chained(A1, A2) ==
    LET i == PassIndex(A1)
        j == PassIndex(A2)
    IN  /\ i # 0 /\ j # 0 /\ i < j
        /\ \A u \in Users : ratings[<<A2, u>>] = op.passes[j].rating[u]
        /\ \A u \in Users :
              (op.passes[i].rating[u] # NoRow /\ op.passes[j].rating[u] # NoRow)
              => \E k \in 1..(j - 1) :
                    /\ op.passes[k].rating[u] # NoRow
                    /\ end_time[op.passes[k].assignment] < end_time[A2]
                    /\ end_time[A1] <= end_time[op.passes[k].assignment]
                    /\ op.passes[j].prior[u] = op.passes[k].rating[u]
                    /\ \A m \in 1..(j - 1) :
                          (/\ op.passes[m].rating[u] # NoRow
                           /\ end_time[op.passes[m].assignment] < end_time[A2])
                          => end_time[op.passes[m].assignment]
                                <= end_time[op.passes[k].assignment]

\* C3 as stated: rate(A1), called when the rated A1 has ended, regenerates,
\* chained off A1's fresh rows, the rows of every rated A2 with
\* A1.end_time < A2.end_time.
C3_ChainsEveryLaterRated ==
    (IsRate /\ op.ok /\ is_rated[op.assignment]
            /\ end_time[op.assignment] <= op.now) =>
        \A A2 \in Assignments :
            (is_rated[A2] /\ end_time[op.assignment] < end_time[A2])
            => Chained(op.assignment, A2)

\* C3 amended: rate(A1) regenerates, chained off A1's fresh rows, the rows
\* of every rated A2 with A1.end_time < A2.end_time <= now.
C3_ChainsLaterRatedEndedByNow ==
    (IsRate /\ op.ok /\ is_rated[op.assignment]) =>
        \A A2 \in Assignments :
            (/\ is_rated[A2]
             /\ end_time[op.assignment] < end_time[A2]
             /\ end_time[A2] <= op.now)
            => Chained(op.assignment, A2)

\* A completed rate(A1) that re-rated a later assignment A2 which had rows
\* before the call, with a user rated in both.
C3_Witness ==
    /\ IsRate /\ op.ok /\ is_rated[op.assignment]
    /\ \E A2 \in Assignments :
          /\ is_rated[A2]
          /\ end_time[op.assignment] < end_time[A2] /\ end_time[A2] <= op.now
          /\ HasRatings(op.before, A2)
          /\ A2 \in op.deleted
          /\ \E u \in Users :
                /\ ratings[<<op.assignment, u>>] # NoRow
                /\ ratings[<<A2, u>>] # NoRow
                /\ ratings[<<A2, u>>] # op.before[<<A2, u>>]

\* C4: a rate() in which the rating engine fails leaves the persisted Rating
\* rows exactly as they were before the call.
C4_FailedRateLeavesRatings ==
    (IsRate /\ ~op.ok) => ratings = op.before

\* A rate() that failed after its delete had removed rows and after at least
\* one assignment had been re-rated inside the transaction.
C4_Witness ==
    /\ IsRate /\ ~op.ok
    /\ op.deleted # {}
    /\ Len(op.passes) >= 1
    /\ \E u \in Users : op.passes[1].rating[u] # NoRow

(* ------------------- claims about set_disqualified -------------------- *)

\* The operation under observation is a call p.set_disqualified(d).
IsSetDisqualified == op.name = "set_disqualified"

\* The step of that name was started by the operation under observation.
Stepped(name) == \E i \in DOMAIN op.steps : op.steps[i] = name

\* C5: a set_disqualified() in which a step fails leaves the participation
\* row, the Rating rows, the user's current_assignment pointer and the
\* assignment's banned set all as they were before the call.
C5_FailedSetDisqualifiedChangesNothing ==
    (IsSetDisqualified /\ ~op.ok) =>
        /\ part = op.before_part
        /\ ratings = op.before
        /\ current_assignment = op.before_current
        /\ banned_users = op.before_banned

\* C6: after a completed set_disqualified(p, true) the persisted score of p
\* is the sentinel whatever the format computed; after a completed
\* set_disqualified(p, false) it is the score the format computed.
C6_SentinelWhileDisqualified ==
    (IsSetDisqualified /\ op.ok) =>
        /\ part[op.participation].is_disqualified = op.disqualified
        /\ op.disqualified => part[op.participation].score = Sentinel
        /\ ~op.disqualified => part[op.participation].score = op.computed

\* A completed set_disqualified(p, false) on a participation that an earlier
\* set_disqualified(p, true) had left with the sentinel score; the format
\* computes a non-zero score.
C6_Witness ==
    /\ IsSetDisqualified /\ op.ok /\ ~op.disqualified
    /\ op.before_part[op.participation].is_disqualified
    /\ op.before_part[op.participation].score = Sentinel
    /\ op.computed > 0
    /\ part[op.participation].score = op.computed

\* C7: a set_disqualified() that gets past recompute_results calls rate() on
\* the participation's assignment exactly when the assignment is is_rated and
\* had a Rating row; rate() then comes right after recompute_results, and
\* every engine pass reads the scores recompute_results has persisted.
C7_RerateIffRatedWithRows ==
    (IsSetDisqualified /\ op.failed # "recompute_results") =>
        /\ Stepped("rate") <=>
              (is_rated[op.assignment] /\ HasRatings(op.before, op.assignment))
        /\ Stepped("rate") =>
              /\ op.steps[1] = "recompute_results" /\ op.steps[2] = "rate"
              /\ \A i \in DOMAIN op.passes : \A u \in Users :
                    op.passes[i].score[u] =
                        IF u \in Eligible(part, op.passes[i].assignment)
                        THEN part[<<op.passes[i].assignment, u, LIVE>>].score
                        ELSE NoRow

\* A completed set_disqualified(p, true) on a live participation whose user
\* had a Rating row in the assignment: the re-rating no longer rates the user.
C7_Witness ==
    /\ IsSetDisqualified /\ op.ok /\ op.disqualified
    /\ op.participation[3] = LIVE
    /\ Stepped("rate")
    /\ op.before[<<op.assignment, op.participation[2]>>] # NoRow
    /\ \E i \in DOMAIN op.passes :
          /\ op.passes[i].assignment = op.assignment
          /\ op.passes[i].score[op.participation[2]] = NoRow
    /\ ratings[<<op.assignment, op.participation[2]>>] = NoRow

\* C8: after a completed set_disqualified(p, true) the user of p is in the
\* assignment's banned set and the user's current_assignment is cleared if it
\* pointed at p and unchanged otherwise; after a completed
\* set_disqualified(p, false) the user is not in the banned set.
C8_BannedAndDetached ==
    (IsSetDisqualified /\ op.ok) =>
        LET a == op.assignment
            u == op.participation[2]
        IN  /\ op.disqualified =>
                  /\ u \in banned_users[a]
                  /\ current_assignment[u] =
                        IF op.before_current[u] = op.participation
                        THEN NoParticipation ELSE op.before_current[u]
            /\ ~op.disqualified =>
                  /\ u \notin banned_users[a]
                  /\ current_assignment[u] = op.before_current[u]
            /\ \A v \in Users \ {u} :
                  current_assignment[v] = op.before_current[v]
            /\ \A b \in Assignments :
                  banned_users[b] \ {u} = op.before_banned[b] \ {u}

\* A completed set_disqualified(p, true) while the user's pointer was at
\* another participation: the user is banned and the pointer is kept.
C8_Witness ==
    /\ IsSetDisqualified /\ op.ok /\ op.disqualified
    /\ op.before_current[op.participation[2]] # NoParticipation
    /\ op.before_current[op.participation[2]] # op.participation
    /\ current_assignment[op.participation[2]] = op.before_current[op.participation[2]]
    /\ op.participation[2] \in banned_users[op.assignment]
    /\ op.participation[2] \notin op.before_banned[op.assignment]

(* --------------------- claims about the time window ------------------- *)

\* participation.end_time has been computed.
EndTimeKnown == cached.end_time # NotComputed

\* C9: for a non-virtual participation, end_time is the assignment's end_time
\* for a spectator and for a live participation without time_limit, and
\* min(real_start + time_limit, end_time) for a live participation with one;
\* a live participation never ends after the assignment.
C9_NonVirtualEnd ==
    EndTimeKnown =>
        /\ window.virtual = SPECTATE => cached.end_time = window.end_time
        /\ (window.virtual = LIVE /\ window.time_limit = NoLimit)
              => cached.end_time = window.end_time
        /\ (window.virtual = LIVE /\ window.time_limit # NoLimit)
              => cached.end_time =
                    Min(window.real_start + window.time_limit, window.end_time)
        /\ window.virtual = LIVE => cached.end_time <= window.end_time

\* The end of a live participation whose time_limit runs out before the
\* assignment ends.
C9_Witness ==
    /\ EndTimeKnown
    /\ window.virtual = LIVE
    /\ window.time_limit # NoLimit
    /\ window.real_start + window.time_limit < window.end_time
    /\ cached.end_time = window.real_start + window.time_limit

\* C10: for a virtual participation, end_time is real_start + time_limit
\* whenever the assignment has a time_limit, a zero one included, and
\* real_start + (end_time - start_time) when it has none.
C10_VirtualEnd ==
    (EndTimeKnown /\ window.virtual # LIVE /\ window.virtual # SPECTATE) =>
        /\ window.time_limit # NoLimit
              => cached.end_time = window.real_start + window.time_limit
        /\ window.time_limit = NoLimit
              => cached.end_time =
                    window.real_start + (window.end_time - window.start_time)


\* participation.ended / time_remaining have been evaluated on the object.
EndedKnown == cached.ended # NotEvaluated
TimeRemainingKnown == cached.time_remaining # NotEvaluated

\* C11: on a participation object, ended is true exactly when its end_time is
\* before the object's now; time_remaining is end_time - now when end_time is
\* not before now (zero when they are equal) and None otherwise; so exactly
\* one of "ended is true" and "time_remaining is not None" holds, whenever
\* the two are read.
C11_EndedXorTimeRemaining ==
    /\ EndedKnown => cached.ended[1] = (cached.end_time < cached.now)
    /\ TimeRemainingKnown =>
          /\ cached.end_time >= cached.now
                => cached.time_remaining[1] = cached.end_time - cached.now
          /\ cached.end_time < cached.now => cached.time_remaining[1] = None
          /\ cached.end_time = cached.now => cached.time_remaining[1] = 0
    /\ (EndedKnown /\ TimeRemainingKnown) =>
          (cached.ended[1] <=> cached.time_remaining[1] = None)

\* ended was read while the participation was running and time_remaining
\* after the clock had passed its end: the object still reports it running.
C11_Witness ==
    /\ EndedKnown /\ TimeRemainingKnown
    /\ ~cached.ended[1]
    /\ cached.time_remaining[1] # None
    /\ cached.end_time < clock

\* C12: in one operation that reads both the ended of an assignment and the
\* ended of a live participation of that assignment without time_limit, the
\* participation is not reported ended while the assignment is reported not
\* ended.
C12_ParticipationEndedOnlyIfAssignmentEnded ==
    (/\ cached.assignment_ended # NotEvaluated
     /\ EndedKnown
     /\ window.virtual = LIVE /\ window.time_limit = NoLimit)
    => ~(cached.ended[1] /\ ~cached.assignment_ended[1])

\* The operation under observation is the submission of the assignment form.
IsSave == op.name = "save"

\* C13: validating an assignment with start_time >= end_time raises the
\* window error before the format configuration and the label script are
\* examined, the assignment is then not saved, and the persisted assignment
\* always has start_time < end_time.
C13_WindowCheckedFirst ==
    /\ window.start_time < window.end_time
    /\ (IsSave /\ op.start_time # None /\ op.end_time # None
               /\ op.start_time >= op.end_time) =>
          /\ ~op.ok
          /\ op.failed = "window"
          /\ op.steps = <<>>
    /\ (IsSave /\ op.ok) =>
          /\ window.start_time = op.start_time
          /\ window.end_time = op.end_time

\* A form with start_time = end_time, a valid format configuration and a
\* valid label script was rejected, after an earlier form had been saved.
C13_Witness ==
    /\ IsSave /\ ~op.ok
    /\ op.start_time # None /\ op.start_time = op.end_time
    /\ op.failed = "window"
    /\ window # NoWindow

\* C14: after a completed rate(A), every assignment whose Rating rows the call
\* deleted was passed to the rating engine in that call.
C14_DeletedAreRerated ==
    (IsRate /\ op.ok) =>
        \A a \in op.deleted : \E i \in DOMAIN op.calls : op.calls[i] = a

\* participation.start has been computed.
StartKnown == cached.start # NotComputed

\* C15 as stated: for every participation, whatever its real_start, start is
\* not later than end_time.
C15_StartNotAfterEnd ==
    (StartKnown /\ EndTimeKnown) => cached.start <= cached.end_time

\* C15 amended: start is not later than end_time for every virtual
\* participation, for every live or spectator participation of an assignment
\* without time_limit, and for a live or spectator participation of an
\* assignment with a time_limit whose real_start is not after the
\* assignment's end_time.
C15_StartNotAfterEndUnlessJoinedLate ==
    (/\ StartKnown /\ EndTimeKnown
     /\ (/\ window.virtual \in {LIVE, SPECTATE}
         /\ window.time_limit # NoLimit)
        => window.real_start <= window.end_time)
    => cached.start <= cached.end_time

\* A live participation with a time_limit that started at the very end of
\* the assignment: its window is empty, start = end_time.
C15_Witness ==
    /\ StartKnown /\ EndTimeKnown
    /\ window.virtual = LIVE /\ window.time_limit # NoLimit
    /\ window.time_limit > 0
    /\ window.real_start = window.end_time
    /\ cached.start = cached.end_time

\* The participations of user u in assignment a.
ParticipationsOf(a, u) == {p \in Participations : p[1] = a /\ p[2] = u}

\* C16: after any sequence of set_disqualified calls, a user is in an
\* assignment's banned set exactly when at least one of the user's
\* participations in the assignment is disqualified.
C16_BannedIffSomeDisqualified ==
    \A a \in Assignments, u \in Users :
        u \in banned_users[a]
            <=> \E p \in ParticipationsOf(a, u) : part[p].is_disqualified
====
